---- MODULE Spec2Model ----
(***************************************************************************)
(* A model of the BitTorrent client core: the piece arithmetic of          *)
(* torrent.rs, the peer session of peer.rs (handshake, bitfield,           *)
(* interested, request) and the concurrent piece scheduler                 *)
(* Torrent::download_pieces.                                               *)
(*                                                                         *)
(* Byte strings (Vec<u8>) are kept run-length encoded: a sequence of       *)
(* <<value, count>> runs in which adjacent runs carry different values.    *)
(* Every byte string has exactly one such representation, so equality of   *)
(* representations is equality of byte strings.                            *)
(***************************************************************************)
EXTENDS Integers, Sequences, FiniteSets, TLC

(* ------------------------------ bounds --------------------------------- *)

\* Largest number of pieces of a torrent of the scheduler model.
MaxPieces == 2
\* Largest number of candidate peers the tracker returns.
MaxPeers == 2
\* Largest number of I/O errors, protocol deviations and hangs of one download.
MaxFaults == 1
\* Largest total length and piece length of the piece-size walk.
MaxLength == 12
MaxPieceLength == 5
\* Longest free text the decoder is run on, in characters.
MaxInput == 4
\* Largest number of elements of a generated list.
MaxItems == 2

(* --------------------------- program constants ------------------------- *)

BLOCK_MAX == 16384

\* What a wrapped usize difference a - b + 2^64 is represented by: a value
\* above every length, offset and size of the model.
UsizeWrapped == 2147483647

(* ------------------------------ arithmetic ----------------------------- *)

Min(a, b) == IF a <= b THEN a ELSE b

\* usize::min
UMin(a, b) == Min(a, b)

\* usize::div_ceil
DivCeil(a, b) == (a + b - 1) \div b

\* a - b on usize. A release build wraps; a debug build panics, which the
\* callers observe through SubUnderflows.
USub(a, b) == IF a >= b THEN a - b ELSE UsizeWrapped

SubUnderflows(a, b) == a < b

(* ------------------------------ byte strings --------------------------- *)

Run(v, n) == <<v, n>>

\* Vec::extend: a followed by b.
RECURSIVE Extend(_, _)
Extend(a, b) ==
    IF b = <<>> THEN a
    ELSE IF b[1][2] = 0 THEN Extend(a, Tail(b))
    ELSE IF a # <<>> /\ a[Len(a)][1] = b[1][1]
         THEN Extend([a EXCEPT ![Len(a)] = Run(b[1][1], a[Len(a)][2] + b[1][2])], Tail(b))
         ELSE Extend(Append(a, b[1]), Tail(b))

\* Vec::len
RECURSIVE BytesLen(_)
BytesLen(a) == IF a = <<>> THEN 0 ELSE a[1][2] + BytesLen(Tail(a))

\* The bytes of a byte string, one by one (used for short strings only).
RECURSIVE Expand(_)
Expand(a) ==
    IF a = <<>> THEN <<>>
    ELSE IF a[1][2] = 0 THEN Expand(Tail(a))
    ELSE <<a[1][1]>> \o Expand(<<Run(a[1][1], a[1][2] - 1)>> \o Tail(a))

\* The 20-byte digest of a byte string, as a deterministic function of its
\* bytes: a fold over the runs of the canonical representation.
RECURSIVE HashFold(_, _)
HashFold(h, a) ==
    IF a = <<>> THEN h
    ELSE HashFold((h * 31 + a[1][1] * 131 + a[1][2]) % 65521, Tail(a))

Hash(a) == HashFold(7, a)

(* ------------------------------- metadata ------------------------------ *)

VARIABLES
    length,         \* Keys::SingleFile { length }
    piece_length,   \* Info::piece_length
    requested,      \* the `pieces` argument of download_pieces, as produced
    npeers,         \* peers.len(): the candidates the tracker returned
    bitfield,       \* bitfield[p]: the Bitfield payload peer p advertises
    pc,             \* pc[w]: where worker w stands
    id,             \* Peer::id once the handshake succeeded
    pieces,         \* Peer::pieces once the bitfield was read
    piece,          \* the index worker w popped
    block,          \* the block loop's counter
    all_blocks,     \* the accumulator of the piece being downloaded
    requests,       \* the Request frames sent for the piece being downloaded
    trace,          \* what the session of worker w exchanged during setup
    wire,           \* wire[w]: what peer w sent and the client has not read
    remote,         \* remote[w]: "ok", or "hung" once peer w stopped answering
    faults,         \* how many times a peer or a connection misbehaved
    work_queue,     \* Arc<Mutex<VecDeque<usize>>>, the queue
    mutex,          \* the Mutex of work_queue: NoHolder, or the worker holding the guard
    rx,             \* the DownloadedPieces sent on the channel, in arrival order
    main_pc,        \* where download_pieces stands
    joined,         \* how many handles were awaited
    result,         \* what download_pieces returned
    size_idx,       \* pieces_size: how many indices the sum consumed
    size_sum,       \* pieces_size: the running sum
    encoded_value,  \* the argument of Bencode::new, a &str
    source,         \* how the argument was made: free text, or from a value
    decoded         \* what Bencode::new returned

vars == <<length, piece_length, requested, npeers, bitfield, pc, id, pieces,
          piece, block, all_blocks, requests, trace, wire, remote, work_queue,
          rx, main_pc, joined, result, size_idx, size_sum, faults,
          encoded_value, source, decoded, mutex>>

Peers == 1 .. MaxPeers

\* self.info.pieces.len(): the metadata carries one hash per piece.
PieceCount(len, plen) == DivCeil(len, plen)

\* The piece size without the shorter last piece.
piece_size_Full(p, len, plen) == plen

\* pub fn piece_size(piece, length, piece_length)
piece_size(p, len, plen) == UMin(plen, USub(len, plen * p))

\* let nblocks = piece_size.div_ceil(BLOCK_MAX)
NBlocks(size) == DivCeil(size, BLOCK_MAX)

\* The block size without the shorter last block.
BlockSize_Full(size, b) == BLOCK_MAX

\* let block_size = BLOCK_MAX.min(piece_size - BLOCK_MAX * block)
BlockSize(size, b) == UMin(BLOCK_MAX, USub(size, BLOCK_MAX * b))

\* Request::new(piece, block * BLOCK_MAX, block_size)
Request(p, b, size) == [index |-> p, begin |-> b * BLOCK_MAX, length |-> BlockSize(size, b)]

\* The content of the file being shared: every block has its own byte value.
FileByte(p, b) == 1 + p * 8 + b

FileBlock(p, b, n) == IF n = 0 THEN <<>> ELSE <<Run(FileByte(p, b), n)>>

RECURSIVE FilePieceFrom(_, _, _)
FilePieceFrom(p, b, size) ==
    IF b >= NBlocks(size) THEN <<>>
    ELSE Extend(FileBlock(p, b, BlockSize(size, b)), FilePieceFrom(p, b + 1, size))

FilePiece(p, len, plen) == FilePieceFrom(p, 0, piece_size(p, len, plen))

\* self.info.pieces[piece]: the digest the metadata holds for the piece.
piece_hashes(p) == Hash(FilePiece(p, length, piece_length))

(* ------------------------------- messages ------------------------------ *)

None == [kind |-> "none"]

\* The stream ended: Framed::next() yields None, read_exact fails.
Eof == [kind |-> "eof"]

\* The framer could not decode what arrived: Framed::next() yields Some(Err).
Invalid == [kind |-> "invalid"]

\* A framed message. The payload is hdr followed by body: hdr holds the two
\* 4-byte big-endian fields (index, begin) of a Piece payload, or is empty.
Frame(tag, hdr, body) == [kind |-> "frame", tag |-> tag, hdr |-> hdr, body |-> body]

PayloadLen(m) == (IF m.hdr = <<>> THEN 0 ELSE 8) + BytesLen(m.body)

\* payload.is_empty()
PayloadIsEmpty(m) == PayloadLen(m) = 0

\* Handshake: length (1 byte), bittorrent (19), reserved (8), info_hash (20),
\* peer_id (20).
HandshakeLen == 1 + 19 + 8 + 20 + 20

ProtocolName == "BitTorrent protocol"

HandshakeMsg(n, len, name, ih, pid) ==
    [kind |-> "handshake", nbytes |-> n, length |-> len, bittorrent |-> name,
     info_hash |-> ih, peer_id |-> pid]

\* Handshake::new(info_hash); the peer id this client sends.
OwnHandshake == HandshakeMsg(HandshakeLen, 19, ProtocolName, "info_hash", "client")

(* ------------------------------- bitfield ------------------------------ *)

\* format!("{:b}", byte): the binary digits of byte, most significant first,
\* without leading zeros; "0" for 0.
RECURSIVE Binary(_)
Binary(byte) ==
    IF byte < 2 THEN <<byte>> ELSE Append(Binary(byte \div 2), byte % 2)

\* payload.iter().flat_map(|byte| format!("{:b}", byte).chars())
RECURSIVE BitChars(_)
BitChars(bytes) ==
    IF bytes = <<>> THEN <<>> ELSE Binary(bytes[1]) \o BitChars(Tail(bytes))

\* .enumerate().filter_map(|(i, b)| (b == '1').then_some(i)).collect()
BitfieldPieces(body) ==
    LET chars == BitChars(Expand(body))
    IN  {i - 1 : i \in {j \in 1 .. Len(chars) : chars[j] = 1}}

\* The payload of a peer holding the pieces of `has`: piece i is bit 7 - i of
\* the first byte.
RECURSIVE SumBits(_)
SumBits(has) ==
    IF has = {} THEN 0
    ELSE LET i == CHOOSE x \in has : TRUE IN 2 ^ (7 - i) + SumBits(has \ {i})

BitfieldOf(has) == <<Run(SumBits(has), 1)>>

\* The pieces a Bitfield payload advertises on the wire: piece 8 * k + j is
\* bit j, counted from the most significant bit, of byte k.
MsbFirstPieces(bytes) ==
    {8 * (k - 1) + j : <<k, j>> \in
        {kj \in (1 .. Len(bytes)) \X (0 .. 7) : (bytes[kj[1]] \div 2 ^ (7 - kj[2])) % 2 = 1}}

(* ---------------------------- remote peers ----------------------------- *)

PeerId(w) == <<"peer", w>>

\* The last Request worker w sent.
LastRequest(w) == requests[w][Len(requests[w])]

\* The bytes of the file a Request asks for.
RequestedBytes(r) == FileBlock(r.index, r.begin \div BLOCK_MAX, r.length)

\* The same bytes with the last one changed.
CorruptedBytes(r) ==
    Extend(FileBlock(r.index, r.begin \div BLOCK_MAX, r.length - 1), <<Run(255, 1)>>)

\* What a peer that follows the protocol sends at each point of the session.
HonestReply(w) ==
    CASE pc[w] = "handshake_read" ->
            HandshakeMsg(HandshakeLen, 19, ProtocolName, "info_hash", PeerId(w))
      [] pc[w] = "bitfield" -> Frame("Bitfield", <<>>, bitfield[w])
      [] pc[w] = "unchoke_wait" -> Frame("Unchoke", <<>>, <<>>)
      [] pc[w] = "piece_wait" ->
            LET r == LastRequest(w)
            IN  Frame("Piece", <<r.index, r.begin>>, RequestedBytes(r))

\* What any peer may send instead.
Deviations(w) ==
    {Eof, Invalid} \cup
    CASE pc[w] = "handshake_read" ->
            {HandshakeMsg(HandshakeLen - 1, 19, ProtocolName, "info_hash", PeerId(w)),
             HandshakeMsg(HandshakeLen, 18, ProtocolName, "info_hash", PeerId(w)),
             HandshakeMsg(HandshakeLen, 19, "BitTorrent protocoX", "info_hash", PeerId(w)),
             HandshakeMsg(HandshakeLen, 19, ProtocolName, "other_hash", PeerId(w))}
      [] pc[w] = "bitfield" ->
            {Frame("Unchoke", <<>>, <<>>), Frame("Have", <<>>, <<Run(0, 4)>>)}
      [] pc[w] = "unchoke_wait" ->
            {Frame("Unchoke", <<>>, <<Run(0, 1)>>), Frame("Choke", <<>>, <<>>)}
      [] pc[w] = "piece_wait" ->
            LET r == LastRequest(w)
            IN  {Frame("Piece", <<r.index, r.begin>>, CorruptedBytes(r)),
                 Frame("Piece", <<r.index, r.begin>>,
                       FileBlock(r.index, r.begin \div BLOCK_MAX, r.length - 1)),
                 Frame("Piece", <<r.index + 1, r.begin>>, RequestedBytes(r)),
                 Frame("Piece", <<r.index, r.begin + BLOCK_MAX>>, RequestedBytes(r)),
                 Frame("Piece", <<>>, <<>>),
                 Frame("Piece", <<>>, <<Run(0, 4)>>),
                 Frame("Choke", <<>>, <<>>)}

\* The pieces peer p advertises.
Advertised(p) == MsbFirstPieces(Expand(bitfield[p]))

Awaiting(w) == pc[w] \in {"handshake_read", "bitfield", "unchoke_wait", "piece_wait"}

\* Peer w sends what the protocol asks for; a block of a piece it advertised.
PeerSend(w) ==
    /\ Awaiting(w) /\ wire[w] = None /\ remote[w] # "hung"
    /\ pc[w] = "piece_wait" => LastRequest(w).index \in Advertised(w)
    /\ wire' = [wire EXCEPT ![w] = HonestReply(w)]
    /\ UNCHANGED <<mutex, encoded_value, source, decoded, length, piece_length, requested, npeers, bitfield, pc, id, pieces,
                   piece, block, all_blocks, requests, trace, remote, work_queue,
                   rx, main_pc, joined, result, size_idx, size_sum, faults>>

\* Peer w serves a block of a piece its bitfield did not advertise (a piece
\* it completed since, or held back from its bitfield).
PeerServeUnadvertised(w) ==
    /\ pc[w] = "piece_wait" /\ wire[w] = None /\ remote[w] # "hung"
    /\ LastRequest(w).index \notin Advertised(w)
    /\ wire' = [wire EXCEPT ![w] = HonestReply(w)]
    /\ UNCHANGED <<mutex, encoded_value, source, decoded, length, piece_length, requested, npeers, bitfield, pc, id, pieces,
                   piece, block, all_blocks, requests, trace, remote, work_queue,
                   rx, main_pc, joined, result, size_idx, size_sum, faults>>

\* Peer w sends something else, or closes the connection.
PeerDeviate(w) ==
    /\ Awaiting(w) /\ wire[w] = None /\ remote[w] # "hung"
    /\ faults < MaxFaults
    /\ faults' = faults + 1
    /\ \E m \in Deviations(w) : wire' = [wire EXCEPT ![w] = m]
    /\ UNCHANGED remote
    /\ UNCHANGED <<mutex, encoded_value, source, decoded, length, piece_length, requested, npeers, bitfield, pc, id, pieces,
                   piece, block, all_blocks, requests, trace, work_queue,
                   rx, main_pc, joined, result, size_idx, size_sum>>

\* Peer w stops answering while the connection stays open.
PeerHang(w) ==
    /\ Awaiting(w) /\ wire[w] = None /\ remote[w] # "hung"
    /\ faults < MaxFaults
    /\ faults' = faults + 1
    /\ remote' = [remote EXCEPT ![w] = "hung"]
    /\ UNCHANGED <<mutex, encoded_value, source, decoded, length, piece_length, requested, npeers, bitfield, pc, id, pieces,
                   piece, block, all_blocks, requests, trace, wire, work_queue,
                   rx, main_pc, joined, result, size_idx, size_sum>>

(* ----------------------------- peer session ---------------------------- *)

\* The handshake check without the protocol name.
HandshakeAccepts_LengthOnly(m) == m.length = 19

\* anyhow::ensure!(handshake.length == 19);
\* anyhow::ensure!(&handshake.bittorrent == b"BitTorrent protocol");
HandshakeAccepts(m) ==
    /\ m.length = 19
    /\ m.bittorrent = ProtocolName

\* stream.read_exact(bytes): all the bytes of a handshake arrived.
ReadExactOk(m) == m.kind = "handshake" /\ m.nbytes = HandshakeLen

\* Peer::bitfield: the first message must carry the Bitfield tag.
BitfieldAccepts(m) == m.kind = "frame" /\ m.tag = "Bitfield"

\* The reply check without the payload check.
UnchokeAccepts_AnyPayload(m) == m.kind = "frame" /\ m.tag = "Unchoke"

\* Peer::interested: the reply must be Unchoke with an empty payload.
UnchokeAccepts(m) == m.kind = "frame" /\ m.tag = "Unchoke" /\ PayloadIsEmpty(m)

\* Piece::ref_from_bytes: the payload holds at least the two 4-byte fields.
PieceParses(m) == m.hdr # <<>>

\* The checks of Peer::request without the check of the offset.
RequestAccepts_AnyBegin(m, r) ==
    /\ m.kind = "frame"
    /\ m.tag = "Piece"
    /\ ~PayloadIsEmpty(m)
    /\ PieceParses(m)
    /\ m.hdr[1] = r.index

\* Peer::request: the checks on the reply to Request r.
RequestAccepts(m, r) ==
    /\ m.kind = "frame"
    /\ m.tag = "Piece"
    /\ ~PayloadIsEmpty(m)
    /\ PieceParses(m)
    /\ m.hdr[1] = r.index
    /\ m.hdr[2] = r.begin

(* ------------------------------- workers ------------------------------- *)

\* A worker for every candidate peer.
peers_amount_EveryPeer == npeers

\* let peers_amount = pieces.len().min(peers.len());
peers_amount == UMin(Len(requested), npeers)

\* TcpStream::connect and write_all of the handshake; either may fail.
HandshakeWrite(w) ==
    /\ pc[w] = "connect"
    /\ \/ /\ UNCHANGED faults
          /\ pc' = [pc EXCEPT ![w] = "handshake_read"]
          /\ trace' = [trace EXCEPT ![w] = Append(@, <<"tx", OwnHandshake>>)]
       \/ /\ faults < MaxFaults
          /\ faults' = faults + 1
          /\ pc' = [pc EXCEPT ![w] = "failed"]
          /\ UNCHANGED trace
    /\ UNCHANGED <<mutex, encoded_value, source, decoded, length, piece_length, requested, npeers, bitfield, id, pieces,
                   piece, block, all_blocks, requests, wire, remote, work_queue,
                   rx, main_pc, joined, result, size_idx, size_sum>>

\* read_exact of the reply and the two checks of Peer::handshake.
HandshakeRead(w) ==
    /\ pc[w] = "handshake_read" /\ wire[w] # None
    /\ LET m == wire[w] IN
        /\ trace' = [trace EXCEPT ![w] = Append(@, <<"rx", m>>)]
        /\ IF ReadExactOk(m) /\ HandshakeAccepts(m)
           THEN /\ pc' = [pc EXCEPT ![w] = "bitfield"]
                /\ id' = [id EXCEPT ![w] = m.peer_id]
           ELSE /\ pc' = [pc EXCEPT ![w] = "failed"]
                /\ UNCHANGED id
    /\ wire' = [wire EXCEPT ![w] = None]
    /\ UNCHANGED <<mutex, encoded_value, source, decoded, length, piece_length, requested, npeers, bitfield, pieces,
                   piece, block, all_blocks, requests, remote, work_queue,
                   rx, main_pc, joined, result, size_idx, size_sum, faults>>

\* Peer::bitfield
Bitfield(w) ==
    /\ pc[w] = "bitfield" /\ wire[w] # None
    /\ LET m == wire[w] IN
        /\ trace' = [trace EXCEPT ![w] = Append(@, <<"rx", m>>)]
        /\ IF BitfieldAccepts(m)
           THEN /\ pc' = [pc EXCEPT ![w] = "interested"]
                /\ pieces' = [pieces EXCEPT ![w] = BitfieldPieces(m.body)]
           ELSE /\ pc' = [pc EXCEPT ![w] = "failed"]
                /\ UNCHANGED pieces
    /\ wire' = [wire EXCEPT ![w] = None]
    /\ UNCHANGED <<mutex, encoded_value, source, decoded, length, piece_length, requested, npeers, bitfield, id,
                   piece, block, all_blocks, requests, remote, work_queue,
                   rx, main_pc, joined, result, size_idx, size_sum, faults>>

\* Peer::interested, the send of the Interested message.
InterestedSend(w) ==
    /\ pc[w] = "interested"
    /\ \/ /\ UNCHANGED faults
          /\ pc' = [pc EXCEPT ![w] = "unchoke_wait"]
          /\ trace' = [trace EXCEPT ![w] = Append(@, <<"tx", Frame("Interested", <<>>, <<>>)>>)]
       \/ /\ faults < MaxFaults
          /\ faults' = faults + 1
          /\ pc' = [pc EXCEPT ![w] = "failed"]
          /\ UNCHANGED trace
    /\ UNCHANGED <<mutex, encoded_value, source, decoded, length, piece_length, requested, npeers, bitfield, id, pieces,
                   piece, block, all_blocks, requests, wire, remote, work_queue,
                   rx, main_pc, joined, result, size_idx, size_sum>>

\* Peer::interested, the read of the reply.
InterestedRecv(w) ==
    /\ pc[w] = "unchoke_wait" /\ wire[w] # None
    /\ LET m == wire[w] IN
        /\ trace' = [trace EXCEPT ![w] = Append(@, <<"rx", m>>)]
        /\ pc' = [pc EXCEPT ![w] = IF UnchokeAccepts(m) THEN "loop" ELSE "failed"]
    /\ wire' = [wire EXCEPT ![w] = None]
    /\ UNCHANGED <<mutex, encoded_value, source, decoded, length, piece_length, requested, npeers, bitfield, id, pieces,
                   piece, block, all_blocks, requests, remote, work_queue,
                   rx, main_pc, joined, result, size_idx, size_sum, faults>>

\* The value of `piece` outside an iteration of the work loop.
NoPiece == 0 - 1

\* The critical section reading the front of the queue without removing it.
Pop_KeepsIndex(w) ==
    /\ pc[w] = "loop" /\ work_queue # <<>>
    /\ Head(work_queue) \in pieces[w]
    /\ work_queue' = work_queue
    /\ piece' = [piece EXCEPT ![w] = Head(work_queue)]
    /\ block' = [block EXCEPT ![w] = 0]
    /\ all_blocks' = [all_blocks EXCEPT ![w] = <<>>]
    /\ requests' = [requests EXCEPT ![w] = <<>>]
    /\ pc' = [pc EXCEPT ![w] =
                IF NBlocks(piece_size(Head(work_queue), length, piece_length)) = 0
                THEN "hash" ELSE "request"]
    /\ UNCHANGED <<mutex, encoded_value, source, decoded, length, piece_length, requested, npeers, bitfield, id, pieces,
                   trace, wire, remote, rx, main_pc, joined, result, size_idx, size_sum, faults>>

\* The critical section of the work loop when the popped index is one the
\* peer has: work_queue.pop_front(), then the piece's size and block count.
Pop(w) ==
    /\ pc[w] = "loop" /\ work_queue # <<>>
    /\ Head(work_queue) \in pieces[w]
    /\ work_queue' = Tail(work_queue)
    /\ piece' = [piece EXCEPT ![w] = Head(work_queue)]
    /\ block' = [block EXCEPT ![w] = 0]
    /\ all_blocks' = [all_blocks EXCEPT ![w] = <<>>]
    /\ requests' = [requests EXCEPT ![w] = <<>>]
    /\ pc' = [pc EXCEPT ![w] =
                IF NBlocks(piece_size(Head(work_queue), length, piece_length)) = 0
                THEN "hash" ELSE "request"]
    /\ UNCHANGED <<mutex, encoded_value, source, decoded, length, piece_length, requested, npeers, bitfield, id, pieces,
                   trace, wire, remote, rx, main_pc, joined, result, size_idx, size_sum, faults>>

\* The critical section when the peer lacks the popped index: push_back and
\* continue, under the same lock.
PopPushBack(w) ==
    /\ pc[w] = "loop" /\ work_queue # <<>>
    /\ Head(work_queue) \notin pieces[w]
    /\ work_queue' = Append(Tail(work_queue), Head(work_queue))
    /\ UNCHANGED <<mutex, encoded_value, source, decoded, length, piece_length, requested, npeers, bitfield, pc, id, pieces,
                   piece, block, all_blocks, requests, trace, wire, remote,
                   rx, main_pc, joined, result, size_idx, size_sum, faults>>

\* pop_front() returned None: break.
QueueEmpty(w) ==
    /\ pc[w] = "loop" /\ work_queue = <<>>
    /\ pc' = [pc EXCEPT ![w] = "done"]
    /\ UNCHANGED <<mutex, encoded_value, source, decoded, length, piece_length, requested, npeers, bitfield, id, pieces,
                   piece, block, all_blocks, requests, trace, wire, remote, work_queue,
                   rx, main_pc, joined, result, size_idx, size_sum, faults>>

\* The Mutex when no guard is alive.
NoHolder == 0

\* The work loop step by step, with the lock visible.
\* let mut work_queue = work_queue.lock().expect("can lock mutex"): the
\* worker waits until the Mutex is free and takes the guard. No statement
\* under the guard can panic, so the Mutex is never poisoned.
LockQueue(w) ==
    /\ pc[w] = "loop" /\ mutex = NoHolder
    /\ mutex' = w
    /\ pc' = [pc EXCEPT ![w] = "locked"]
    /\ UNCHANGED <<encoded_value, source, decoded, length, piece_length, requested, npeers, bitfield,
                   id, pieces, piece, block, all_blocks, requests, trace, wire, remote,
                   work_queue, rx, main_pc, joined, result, size_idx, size_sum, faults>>

\* work_queue.pop_front() under the guard: None breaks out of the loop and
\* drops the guard, Some(piece) goes on to the check of the peer's pieces.
PopFront(w) ==
    /\ pc[w] = "locked" /\ mutex = w
    /\ IF work_queue = <<>>
       THEN /\ pc' = [pc EXCEPT ![w] = "done"]
            /\ mutex' = NoHolder
            /\ UNCHANGED <<work_queue, piece>>
       ELSE /\ pc' = [pc EXCEPT ![w] = "popped"]
            /\ piece' = [piece EXCEPT ![w] = Head(work_queue)]
            /\ work_queue' = Tail(work_queue)
            /\ UNCHANGED mutex
    /\ UNCHANGED <<encoded_value, source, decoded, length, piece_length, requested, npeers, bitfield,
                   id, pieces, block, all_blocks, requests, trace, wire, remote,
                   rx, main_pc, joined, result, size_idx, size_sum, faults>>

\* The guard dropped on leaving the block without the push_back.
PushBackOrKeep_Drops(w) ==
    /\ pc[w] = "popped" /\ mutex = w
    /\ mutex' = NoHolder
    /\ IF piece[w] \notin pieces[w]
       THEN /\ pc' = [pc EXCEPT ![w] = "loop"]
            /\ piece' = [piece EXCEPT ![w] = NoPiece]
            /\ UNCHANGED <<work_queue, block, all_blocks, requests>>
       ELSE /\ block' = [block EXCEPT ![w] = 0]
            /\ all_blocks' = [all_blocks EXCEPT ![w] = <<>>]
            /\ requests' = [requests EXCEPT ![w] = <<>>]
            /\ pc' = [pc EXCEPT ![w] =
                        IF NBlocks(piece_size(piece[w], length, piece_length)) = 0
                        THEN "hash" ELSE "request"]
            /\ UNCHANGED <<work_queue, piece>>
    /\ UNCHANGED <<encoded_value, source, decoded, length, piece_length, requested, npeers, bitfield,
                   id, pieces, trace, wire, remote,
                   rx, main_pc, joined, result, size_idx, size_sum, faults>>

\* The guard kept alive by the worker while it downloads the piece.
PushBackOrKeep_HoldsGuard(w) ==
    /\ pc[w] = "popped" /\ mutex = w
    /\ IF piece[w] \notin pieces[w]
       THEN /\ work_queue' = Append(work_queue, piece[w])
            /\ pc' = [pc EXCEPT ![w] = "loop"]
            /\ piece' = [piece EXCEPT ![w] = NoPiece]
            /\ mutex' = NoHolder
            /\ UNCHANGED <<block, all_blocks, requests>>
       ELSE /\ block' = [block EXCEPT ![w] = 0]
            /\ all_blocks' = [all_blocks EXCEPT ![w] = <<>>]
            /\ requests' = [requests EXCEPT ![w] = <<>>]
            /\ pc' = [pc EXCEPT ![w] =
                        IF NBlocks(piece_size(piece[w], length, piece_length)) = 0
                        THEN "hash" ELSE "request"]
            /\ UNCHANGED <<work_queue, piece, mutex>>
    /\ UNCHANGED <<encoded_value, source, decoded, length, piece_length, requested, npeers, bitfield,
                   id, pieces, trace, wire, remote,
                   rx, main_pc, joined, result, size_idx, size_sum, faults>>

\* if !peer.pieces().contains(&piece) { work_queue.push_back(piece); continue; }
\* and otherwise `piece` leaves the block; either way the guard is dropped.
PushBackOrKeep(w) ==
    /\ pc[w] = "popped" /\ mutex = w
    /\ mutex' = NoHolder
    /\ IF piece[w] \notin pieces[w]
       THEN /\ work_queue' = Append(work_queue, piece[w])
            /\ pc' = [pc EXCEPT ![w] = "loop"]
            /\ piece' = [piece EXCEPT ![w] = NoPiece]
            /\ UNCHANGED <<block, all_blocks, requests>>
       ELSE /\ block' = [block EXCEPT ![w] = 0]
            /\ all_blocks' = [all_blocks EXCEPT ![w] = <<>>]
            /\ requests' = [requests EXCEPT ![w] = <<>>]
            /\ pc' = [pc EXCEPT ![w] =
                        IF NBlocks(piece_size(piece[w], length, piece_length)) = 0
                        THEN "hash" ELSE "request"]
            /\ UNCHANGED <<work_queue, piece>>
    /\ UNCHANGED <<encoded_value, source, decoded, length, piece_length, requested, npeers, bitfield,
                   id, pieces, trace, wire, remote,
                   rx, main_pc, joined, result, size_idx, size_sum, faults>>

\* The block loop sending every Request of the piece before it reads a reply.
RequestSend_Pipelined(w) ==
    /\ pc[w] = "request"
    /\ \/ /\ UNCHANGED faults
          /\ pc' = [pc EXCEPT ![w] =
                    IF Len(requests[w]) + 1 < NBlocks(piece_size(piece[w], length, piece_length))
                    THEN "request" ELSE "piece_wait"]
          /\ requests' = [requests EXCEPT ![w] =
                    Append(@, Request(piece[w], Len(requests[w]),
                                      piece_size(piece[w], length, piece_length)))]
       \/ /\ faults < MaxFaults
          /\ faults' = faults + 1
          /\ pc' = [pc EXCEPT ![w] = "failed"]
          /\ UNCHANGED requests
    /\ UNCHANGED <<mutex, encoded_value, source, decoded, length, piece_length, requested, npeers, bitfield, id, pieces,
                   piece, block, all_blocks, trace, wire, remote, work_queue,
                   rx, main_pc, joined, result, size_idx, size_sum>>

\* Peer::request, the send of the Request frame for the current block.
RequestSend(w) ==
    /\ pc[w] = "request"
    /\ \/ /\ UNCHANGED faults
          /\ pc' = [pc EXCEPT ![w] = "piece_wait"]
          /\ requests' = [requests EXCEPT ![w] =
                    Append(@, Request(piece[w], block[w],
                                      piece_size(piece[w], length, piece_length)))]
       \/ /\ faults < MaxFaults
          /\ faults' = faults + 1
          /\ pc' = [pc EXCEPT ![w] = "failed"]
          /\ UNCHANGED requests
    /\ UNCHANGED <<mutex, encoded_value, source, decoded, length, piece_length, requested, npeers, bitfield, id, pieces,
                   piece, block, all_blocks, trace, wire, remote, work_queue,
                   rx, main_pc, joined, result, size_idx, size_sum>>

\* Peer::request, the read of the reply, and the step of the block loop.
RequestRecv(w) ==
    /\ pc[w] = "piece_wait" /\ wire[w] # None
    /\ LET m == wire[w] IN
        IF RequestAccepts(m, LastRequest(w))
        THEN /\ all_blocks' = [all_blocks EXCEPT ![w] = Extend(@, m.body)]
             /\ block' = [block EXCEPT ![w] = @ + 1]
             /\ pc' = [pc EXCEPT ![w] =
                    IF block[w] + 1 < NBlocks(piece_size(piece[w], length, piece_length))
                    THEN "request" ELSE "hash"]
        ELSE /\ pc' = [pc EXCEPT ![w] = "failed"]
             /\ UNCHANGED <<all_blocks, block>>
    /\ wire' = [wire EXCEPT ![w] = None]
    /\ UNCHANGED <<mutex, encoded_value, source, decoded, length, piece_length, requested, npeers, bitfield, id, pieces,
                   piece, requests, trace, remote, work_queue,
                   rx, main_pc, joined, result, size_idx, size_sum, faults>>

\* The worker without its digest check.
HashMatches_Unchecked(bytes, p) == TRUE

\* assert_eq!(*hash, piece_hashes[piece])
HashMatches(bytes, p) == Hash(bytes) = piece_hashes(p)

\* DownloadedPiece { number, blocks }; `by` records the sending worker.
DownloadedPiece(w) == [number |-> piece[w], blocks |-> all_blocks[w], by |-> w]

\* The worker sending the piece before it checks the digest.
HashCheck_SendsBeforeAssert(w) ==
    /\ pc[w] = "hash"
    /\ rx' = Append(rx, DownloadedPiece(w))
    /\ IF HashMatches(all_blocks[w], piece[w])
       THEN /\ pc' = [pc EXCEPT ![w] = "loop"]
            /\ piece' = [piece EXCEPT ![w] = NoPiece]
       ELSE /\ pc' = [pc EXCEPT ![w] = "failed"]
            /\ UNCHANGED piece
    /\ UNCHANGED <<mutex, encoded_value, source, decoded, length, piece_length, requested, npeers, bitfield, id, pieces,
                   block, all_blocks, requests, trace, wire, remote, work_queue,
                   main_pc, joined, result, size_idx, size_sum, faults>>

\* The digest check and tx.send of the finished piece. The channel's capacity
\* is pieces_size(pieces), at least one slot per requested piece, and the
\* receiver outlives the workers: the send neither blocks nor fails.
HashCheck(w) ==
    /\ pc[w] = "hash"
    /\ IF HashMatches(all_blocks[w], piece[w])
       THEN /\ rx' = Append(rx, DownloadedPiece(w))
            /\ pc' = [pc EXCEPT ![w] = "loop"]
            /\ piece' = [piece EXCEPT ![w] = NoPiece]
       ELSE /\ pc' = [pc EXCEPT ![w] = "failed"]
            /\ UNCHANGED <<rx, piece>>
    /\ UNCHANGED <<mutex, encoded_value, source, decoded, length, piece_length, requested, npeers, bitfield, id, pieces,
                   block, all_blocks, requests, trace, wire, remote, work_queue,
                   main_pc, joined, result, size_idx, size_sum, faults>>

(* ---------------------------- download_pieces -------------------------- *)

\* all_pieces.sort_by(|a, b| a.number.cmp(&b.number)): a stable sort.
RECURSIVE InsertSorted(_, _)
InsertSorted(s, x) ==
    IF s = <<>> THEN <<x>>
    ELSE IF s[Len(s)].number <= x.number THEN Append(s, x)
    ELSE Append(InsertSorted(SubSeq(s, 1, Len(s) - 1), x), s[Len(s)])

\* The collector without its sort: the pieces in arrival order.
SortByNumber_Unsorted(s) == s

RECURSIVE SortByNumber(_)
SortByNumber(s) ==
    IF s = <<>> THEN <<>>
    ELSE InsertSorted(SortByNumber(SubSeq(s, 1, Len(s) - 1)), s[Len(s)])

\* .into_iter().flat_map(|downloaded_piece| downloaded_piece.blocks).collect()
RECURSIVE FlatBlocks(_)
FlatBlocks(s) ==
    IF s = <<>> THEN <<>> ELSE Extend(s[1].blocks, FlatBlocks(Tail(s)))

\* handle.await? on a worker that left its loop.
JoinOk ==
    /\ main_pc = "join" /\ joined < peers_amount
    /\ pc[joined + 1] = "done"
    /\ joined' = joined + 1
    /\ UNCHANGED <<mutex, encoded_value, source, decoded, length, piece_length, requested, npeers, bitfield, pc, id, pieces,
                   piece, block, all_blocks, requests, trace, wire, remote, work_queue,
                   rx, main_pc, result, size_idx, size_sum, faults>>

\* handle.await? on a worker that panicked: download_pieces returns the error.
JoinErr ==
    /\ main_pc = "join" /\ joined < peers_amount
    /\ pc[joined + 1] = "failed"
    /\ main_pc' = "returned"
    /\ result' = [ok |-> FALSE, bytes |-> <<>>, order |-> <<>>]
    /\ UNCHANGED <<mutex, encoded_value, source, decoded, length, piece_length, requested, npeers, bitfield, pc, id, pieces,
                   piece, block, all_blocks, requests, trace, wire, remote, work_queue,
                   rx, joined, size_idx, size_sum, faults>>

\* Every handle was awaited: collect the channel, sort and concatenate.
Collect ==
    /\ main_pc = "join" /\ joined = peers_amount
    /\ main_pc' = "returned"
    /\ LET all_pieces == SortByNumber(rx)
       IN  result' = [ok |-> TRUE, bytes |-> FlatBlocks(all_pieces),
                      order |-> [i \in 1 .. Len(all_pieces) |-> all_pieces[i].number]]
    /\ UNCHANGED <<mutex, encoded_value, source, decoded, length, piece_length, requested, npeers, bitfield, pc, id, pieces,
                   piece, block, all_blocks, requests, trace, wire, remote, work_queue,
                   rx, joined, size_idx, size_sum, faults>>

\* Torrent::pieces_size, one term of the sum over 0 .. pieces.len().
SizeStep ==
    /\ main_pc = "sizes"
    /\ size_idx < PieceCount(length, piece_length)
    /\ size_sum' = size_sum + piece_size(size_idx, length, piece_length)
    /\ size_idx' = size_idx + 1
    /\ UNCHANGED <<mutex, encoded_value, source, decoded, length, piece_length, requested, npeers, bitfield, pc, id, pieces,
                   piece, block, all_blocks, requests, trace, wire, remote, work_queue,
                   rx, main_pc, joined, result, faults>>

(* -------------------------------- bencode ------------------------------ *)

\* A &str is a sequence of characters; each is a one-character string,
\* except "U+E9", the character e with acute accent, two bytes in UTF-8.
DigitChars == <<"0", "1", "2", "3", "4", "5", "6", "7", "8", "9">>

IsDigit(c) == \E d \in 1 .. 10 : DigitChars[d] = c

\* char::to_digit(10)
DigitVal(c) == (CHOOSE d \in 1 .. 10 : DigitChars[d] = c) - 1

\* char::len_utf8
Utf8Len(c) == IF c = "U+E9" THEN 2 ELSE 1

\* str::len: the length in bytes.
RECURSIVE StrLen(_)
StrLen(s) == IF s = <<>> THEN 0 ELSE Utf8Len(s[1]) + StrLen(Tail(s))

\* str::find(c): the position of the first c among the characters, 0 if none.
FindChar(s, c) ==
    IF \E i \in 1 .. Len(s) : s[i] = c
    THEN CHOOSE i \in 1 .. Len(s) : s[i] = c /\ \A j \in 1 .. i - 1 : s[j] # c
    ELSE 0

\* str::is_char_boundary(n): n bytes are a whole number of characters.
IsCharBoundary(s, n) == \E k \in 0 .. Len(s) : StrLen(SubSeq(s, 1, k)) = n

\* How many characters the first n bytes are, n a character boundary.
CharsIn(s, n) == CHOOSE k \in 0 .. Len(s) : StrLen(SubSeq(s, 1, k)) = n

NoneStr == [some |-> FALSE]

SomeStr(s) == [some |-> TRUE, v |-> s]

\* str::get(..n): None when n is past the end or inside a character.
GetTo(s, n) ==
    IF IsCharBoundary(s, n) THEN SomeStr(SubSeq(s, 1, CharsIn(s, n))) ELSE NoneStr

\* &s[n..] panics where str::get(n..) is None.
SliceFromPanics(s, n) == ~IsCharBoundary(s, n)

SliceFrom(s, n) == SubSeq(s, CharsIn(s, n) + 1, Len(s))

(* Integers are kept as decimal digits, most significant first and without   *)
(* leading zeros, so that usize and isize keep their 64-bit range.           *)

UsizeMaxDigits == <<1, 8, 4, 4, 6, 7, 4, 4, 0, 7, 3, 7, 0, 9, 5, 5, 1, 6, 1, 5>>

IsizeMaxDigits == <<9, 2, 2, 3, 3, 7, 2, 0, 3, 6, 8, 5, 4, 7, 7, 5, 8, 0, 7>>

IsizeMinDigits == <<9, 2, 2, 3, 3, 7, 2, 0, 3, 6, 8, 5, 4, 7, 7, 5, 8, 0, 8>>

RECURSIVE StripZeros(_)
StripZeros(d) == IF Len(d) > 1 /\ d[1] = 0 THEN StripZeros(Tail(d)) ELSE d

\* a <= b on canonical digit sequences.
RECURSIVE DigitsLeq(_, _)
DigitsLeq(a, b) ==
    IF Len(a) # Len(b) THEN Len(a) < Len(b)
    ELSE IF a = <<>> THEN TRUE
    ELSE IF a[1] # b[1] THEN a[1] < b[1]
    ELSE DigitsLeq(Tail(a), Tail(b))

\* The digits of a natural number: usize::to_string.
RECURSIVE NatDigits(_)
NatDigits(n) == IF n < 10 THEN <<n>> ELSE Append(NatDigits(n \div 10), n % 10)

\* The value of a digit sequence that fits the model's integers; a value
\* above every length of the model otherwise.
RECURSIVE DigitsNat(_)
DigitsNat(d) ==
    IF Len(d) > 9 THEN UsizeWrapped
    ELSE IF d = <<>> THEN 0
    ELSE DigitsNat(SubSeq(d, 1, Len(d) - 1)) * 10 + d[Len(d)]

ParseErr == [ok |-> FALSE]

Parsed(neg, d) == [ok |-> TRUE, neg |-> neg /\ d # <<0>>, digits |-> d]

\* The sign characters from_str_radix accepts in front of the digits: '+'
\* for every integer type, '-' for the signed ones.
SignChars(signed) == IF signed THEN {"+", "-"} ELSE {"+"}

\* <usize as FromStr>::from_str and <isize as FromStr>::from_str: an
\* optional sign, then one or more ASCII digits, within the type's range.
ParseInt(text, signed) ==
    LET has_sign == text # <<>> /\ text[1] \in SignChars(signed)
        body == IF has_sign THEN Tail(text) ELSE text
        neg == has_sign /\ text[1] = "-"
        d == StripZeros([i \in 1 .. Len(body) |-> DigitVal(body[i])])
    IN  IF body = <<>> \/ \E i \in 1 .. Len(body) : ~IsDigit(body[i]) THEN ParseErr
        ELSE IF ~signed /\ ~DigitsLeq(d, UsizeMaxDigits) THEN ParseErr
        ELSE IF signed /\ ~neg /\ ~DigitsLeq(d, IsizeMaxDigits) THEN ParseErr
        ELSE IF signed /\ neg /\ ~DigitsLeq(d, IsizeMinDigits) THEN ParseErr
        ELSE Parsed(neg, d)

\* isize::to_string().len()
NumberStringLen(n) == Len(n.digits) + (IF n.neg THEN 1 ELSE 0)

\* enum Bencode
BString(s) == [type |-> "String", s |-> s]

BNumber(n) == [type |-> "Number", n |-> n]

BList(items) == [type |-> "List", items |-> items]

\* The HashMap<String, Bencode> is a function from its keys.
BDictionary(map) == [type |-> "Dictionary", map |-> map]

\* HashMap::new
EmptyMap == <<>>

\* HashMap::insert: a key already present takes the new value.
MapInsert(map, key, value) ==
    [k \in DOMAIN map \cup {key} |-> IF k = key THEN value ELSE map[k]]

\* Result<Bencode, BencodeError>, and the panic of an unreachable!() or of a
\* slice index that is out of range or inside a character.
Ok(v) == [tag |-> "Ok", value |-> v]

Err(e) == [tag |-> "Err", error |-> e]

Panic == [tag |-> "Panic"]

\* Bencode::new was not called.
NotDecoded == [tag |-> "none"]

\* The argument is any text.
FreeText == [kind |-> "text"]

RECURSIVE encoded_length(_)
RECURSIVE ListWidth(_)
RECURSIVE DictWidth(_, _)

\* l.iter().map(|v| v.encoded_length()).sum()
ListWidth(items) ==
    IF items = <<>> THEN 0 ELSE encoded_length(items[1]) + ListWidth(Tail(items))

\* d.iter().map(|(k, v)| k.len() + 2 + v.encoded_length()).sum()
DictWidth(map, keys) ==
    IF keys = {} THEN 0
    ELSE LET k == CHOOSE x \in keys : TRUE
         IN  StrLen(k) + 2 + encoded_length(map[k]) + DictWidth(map, keys \ {k})

\* fn encoded_length(&self) -> usize
encoded_length(v) ==
    CASE v.type = "String" -> StrLen(v.s) + Len(NatDigits(StrLen(v.s))) + 1
      [] v.type = "Number" -> NumberStringLen(v.n) + 2
      [] v.type = "List" -> ListWidth(v.items) + 2
      [] v.type = "Dictionary" -> DictWidth(v.map, DOMAIN v.map) + 2

RECURSIVE BencodeNew(_)
RECURSIVE ListLoop(_, _)
RECURSIVE DictLoop(_, _)

\* The loop of the list arm: rest is what remains of the input.
ListLoop(rest, decoded_values) ==
    IF rest = <<>> THEN Err("MissingDelimeter")
    ELSE IF rest[1] = "e" THEN Ok(BList(decoded_values))
    ELSE LET value == BencodeNew(rest)
         IN  IF value.tag # "Ok" THEN value
             ELSE IF SliceFromPanics(rest, encoded_length(value.value)) THEN Panic
             ELSE ListLoop(SliceFrom(rest, encoded_length(value.value)),
                           Append(decoded_values, value.value))

\* The rest of an iteration of the dictionary arm, after the key.
DictValue(rest, decoded_values, key) ==
    LET value == BencodeNew(rest)
    IN  IF value.tag # "Ok" THEN value
        ELSE IF SliceFromPanics(rest, encoded_length(value.value)) THEN Panic
        ELSE DictLoop(SliceFrom(rest, encoded_length(value.value)),
                      MapInsert(decoded_values, key, value.value))

\* The loop of the dictionary arm.
DictLoop(rest, decoded_values) ==
    IF rest = <<>> THEN Err("MissingDelimeter")
    ELSE IF rest[1] = "e" THEN Ok(BDictionary(decoded_values))
    ELSE LET key == BencodeNew(rest)
         IN  IF key.tag # "Ok" THEN key
             ELSE IF SliceFromPanics(rest, encoded_length(key.value)) THEN Panic
             ELSE IF key.value.type # "String" THEN Err("InvalidKey")
             ELSE DictValue(SliceFrom(rest, encoded_length(key.value)),
                            decoded_values, key.value.s)

\* The byte-string arm: split_once(':'), parse, get(..number).
StringArm(s) ==
    LET colon == FindChar(s, ":")
        number == ParseInt(SubSeq(s, 1, colon - 1), FALSE)
        decoded_value == GetTo(SubSeq(s, colon + 1, Len(s)), DigitsNat(number.digits))
    IN  IF colon = 0 THEN Err("MissingDelimeter")
        ELSE IF ~number.ok THEN Err("InvalidNumber")
        ELSE IF ~decoded_value.some THEN Err("InvalidLength")
        ELSE Ok(BString(decoded_value.v))

\* The integer arm: find('e'), get(1..end), parse.
IntegerArm(s) ==
    LET end == FindChar(s, "e")
        number == ParseInt(SubSeq(s, 2, end - 1), TRUE)
    IN  IF end = 0 THEN Err("MissingDelimeter")
        ELSE IF ~number.ok THEN Err("InvalidNumber")
        ELSE Ok(BNumber([neg |-> number.neg, digits |-> number.digits]))

\* pub fn new(encoded_value: &str) -> Result<Self, BencodeError>
BencodeNew(s) ==
    IF s = <<>> THEN Err("EmptyInput")
    ELSE IF IsDigit(s[1]) THEN StringArm(s)
    ELSE IF s[1] = "i" THEN IntegerArm(s)
    ELSE IF s[1] = "l" THEN ListLoop(Tail(s), <<>>)
    ELSE IF s[1] = "d" THEN DictLoop(Tail(s), EmptyMap)
    ELSE Panic

(* The encoder, and the values and texts the decoder is run on.              *)

\* <len>:<bytes>, i<digits>e, l<items>e, d<sorted key, value pairs>e
NatChars(n) == [i \in 1 .. Len(NatDigits(n)) |-> DigitChars[NatDigits(n)[i] + 1]]

NumberChars(n) ==
    (IF n.neg THEN <<"-">> ELSE <<>>) \o [i \in 1 .. Len(n.digits) |-> DigitChars[n.digits[i] + 1]]

TenA == <<"a", "a", "a", "a", "a", "a", "a", "a", "a", "a">>

\* The keys of the generated dictionaries, in sorted byte order.
KeyOrder == <<<<"a">>, TenA, <<"b">>>>

\* The keys of a dictionary in sorted order.
SortedKeys(map) ==
    LET idx == {i \in 1 .. Len(KeyOrder) : KeyOrder[i] \in DOMAIN map}
        nth(j) == CHOOSE i \in idx : Cardinality({h \in idx : h < i}) = j - 1
    IN  [j \in 1 .. Cardinality(idx) |-> KeyOrder[nth(j)]]

RECURSIVE Encode(_)
RECURSIVE EncodeItems(_)
RECURSIVE EncodePairs(_, _)

EncodeItems(items) ==
    IF items = <<>> THEN <<>> ELSE Encode(items[1]) \o EncodeItems(Tail(items))

EncodePairs(map, keys) ==
    IF keys = <<>> THEN <<>>
    ELSE Encode(BString(keys[1])) \o Encode(map[keys[1]]) \o EncodePairs(map, Tail(keys))

Encode(v) ==
    CASE v.type = "String" -> NatChars(StrLen(v.s)) \o <<":">> \o v.s
      [] v.type = "Number" -> <<"i">> \o NumberChars(v.n) \o <<"e">>
      [] v.type = "List" -> <<"l">> \o EncodeItems(v.items) \o <<"e">>
      [] v.type = "Dictionary" ->
            <<"d">> \o EncodePairs(v.map, SortedKeys(v.map)) \o <<"e">>

\* The prefixes of the encoding of a list or dictionary that end at a
\* sub-value boundary: after a complete element, after a complete key/value
\* pair or after a key, at any depth.
RECURSIVE Cuts(_)
Cuts(v) ==
    CASE v.type = "List" ->
            UNION {{<<"l">> \o EncodeItems(SubSeq(v.items, 1, k))} \cup
                   {<<"l">> \o EncodeItems(SubSeq(v.items, 1, k - 1)) \o c :
                        c \in Cuts(v.items[k])} : k \in 1 .. Len(v.items)}
      [] v.type = "Dictionary" ->
            LET keys == SortedKeys(v.map)
                upto(k) == <<"d">> \o EncodePairs(v.map, SubSeq(keys, 1, k))
            IN  UNION {{upto(k), upto(k - 1) \o Encode(BString(keys[k]))} \cup
                       {upto(k - 1) \o Encode(BString(keys[k])) \o c :
                            c \in Cuts(v.map[keys[k]])} : k \in 1 .. Len(keys)}
      [] OTHER -> {}

\* The encoding of a dictionary with the key of its k-th pair replaced by
\* the encoding of x.
WithKey(v, k, x) ==
    LET keys == SortedKeys(v.map)
    IN  <<"d">> \o EncodePairs(v.map, SubSeq(keys, 1, k - 1)) \o Encode(x)
        \o Encode(v.map[keys[k]]) \o EncodePairs(v.map, SubSeq(keys, k + 1, Len(keys)))
        \o <<"e">>

Twelve == BNumber([neg |-> FALSE, digits |-> <<1, 2>>])

Atoms == {BString(<<"a">>), Twelve}

\* Values that are not byte strings, to stand where a key is expected.
NonStrings ==
    {Twelve, BList(<<>>), BList(<<BString(<<"a">>)>>), BDictionary(EmptyMap),
     BDictionary([k \in {<<"a">>} |-> Twelve])}

\* The sequences of up to n elements of S.
SeqsUpTo(S, n) == UNION {[1 .. k -> S] : k \in 0 .. n}

\* The dictionaries with keys among K and values in S.
DictsOver(K, S) == UNION {[D -> S] : D \in SUBSET K}

\* Lists and dictionaries of atoms, then lists and dictionaries of those.
Containers1(n) ==
    {BList(q) : q \in SeqsUpTo(Atoms, n)}
    \cup {BDictionary(m) : m \in DictsOver({<<"a">>, TenA}, Atoms)}

Containers2(n) ==
    {BList(q) : q \in SeqsUpTo(Atoms \cup Containers1(n), n)}
    \cup {BDictionary(m) : m \in DictsOver({<<"a">>, <<"b">>}, Atoms \cup Containers1(n))}

BencodeChars == {"0", "1", "2", ":", "i", "e", "l", "d", "-", "+", "a", "U+E9"}

\* The texts of up to n characters.
Texts(n) == UNION {[1 .. k -> BencodeChars] : k \in 0 .. n}

\* Integers at both ends of the range of isize and past them, and a length
\* prefix past the range of usize.
NumberChars64(neg, d) ==
    (IF neg THEN <<"-">> ELSE <<>>) \o [i \in 1 .. Len(d) |-> DigitChars[d[i] + 1]]

RangeTexts ==
    {<<"i">> \o NumberChars64(FALSE, IsizeMaxDigits) \o <<"e">>,
     <<"i">> \o NumberChars64(FALSE, IsizeMinDigits) \o <<"e">>,
     <<"i">> \o NumberChars64(TRUE, IsizeMinDigits) \o <<"e">>,
     <<"i">> \o NumberChars64(TRUE, UsizeMaxDigits) \o <<"e">>,
     NumberChars64(FALSE, UsizeMaxDigits) \o <<":">>,
     NumberChars64(FALSE, Append(UsizeMaxDigits, 0)) \o <<":", "a">>}

\* The arguments Bencode::new is run on, each with how it was made: texts of
\* up to n characters, and encodings of values with lists of up to items items.
Inputs(n, items) ==
    {<<t, FreeText>> : t \in Texts(n) \cup RangeTexts}
    \cup {<<Encode(v), [kind |-> "whole", value |-> v]>> : v \in Atoms \cup Containers2(items)}
    \cup UNION {{<<c, [kind |-> "cut", value |-> v]>> : c \in Cuts(v)} : v \in Containers2(items)}
    \cup UNION {UNION {{<<WithKey(v, k, x), [kind |-> "key", value |-> v, at |-> k, key |-> x]>> :
                           x \in NonStrings} :
                       k \in 1 .. Cardinality(DOMAIN v.map)} :
                v \in {c \in Containers2(items) : c.type = "Dictionary"}}

\* Commands::Decode: Bencode::new(&encoded_value)
Decode ==
    /\ main_pc = "decode"
    /\ decoded = NotDecoded
    /\ decoded' = BencodeNew(encoded_value)
    /\ UNCHANGED <<mutex, encoded_value, source, length, piece_length, requested, npeers, bitfield,
                   pc, id, pieces, piece, block, all_blocks, requests, trace, wire, remote,
                   work_queue, rx, main_pc, joined, result, size_idx, size_sum, faults>>

(* ----------------------------- specifications -------------------------- *)

\* The piece lengths of the scheduler model: a full block and one byte.
PieceLengths == {BLOCK_MAX + 1}

\* <<length, piece_length>> with 1 .. MaxPieces pieces, the last one of a
\* single byte or full.
Geometries ==
    UNION {{<<plen * (n - 1) + 1, plen>>, <<plen * n, plen>>} :
              plen \in PieceLengths, n \in 1 .. MaxPieces}

\* The sequences of distinct elements of S.
RECURSIVE InjectiveSeqs(_)
InjectiveSeqs(S) ==
    {<<>>} \cup UNION {{<<x>> \o t : t \in InjectiveSeqs(S \ {x})} : x \in S}

NoResult == [ok |-> FALSE, bytes |-> <<>>, order |-> <<>>]

\* The state in which no worker was launched.
IdleWorkers ==
    /\ id = [w \in Peers |-> <<>>]
    /\ pieces = [w \in Peers |-> {}]
    /\ piece = [w \in Peers |-> NoPiece]
    /\ block = [w \in Peers |-> 0]
    /\ all_blocks = [w \in Peers |-> <<>>]
    /\ requests = [w \in Peers |-> <<>>]
    /\ trace = [w \in Peers |-> <<>>]
    /\ wire = [w \in Peers |-> None]
    /\ remote = [w \in Peers |-> "ok"]
    /\ faults = 0
    /\ mutex = NoHolder
    /\ rx = <<>>
    /\ joined = 0
    /\ result = NoResult
    /\ size_idx = 0
    /\ size_sum = 0

\* No worker was launched and the decode command is not run.
Idle ==
    /\ IdleWorkers
    /\ encoded_value = <<>>
    /\ source = FreeText
    /\ decoded = NotDecoded

\* download_pieces after its spawn loop: the queue holds the requested
\* indices and a worker was spawned for each of the first peers_amount peers.
\* The tracker's compact peer list may be empty.
Init ==
    /\ \E g \in Geometries : length = g[1] /\ piece_length = g[2]
    /\ requested \in InjectiveSeqs(0 .. PieceCount(length, piece_length) - 1) \ {<<>>}
    /\ npeers \in 0 .. MaxPeers
    /\ \E has \in [Peers -> SUBSET (0 .. PieceCount(length, piece_length) - 1)] :
         /\ \A p \in Peers : p > npeers => has[p] = {}
         /\ bitfield = [p \in Peers |-> BitfieldOf(has[p])]
    /\ Idle
    /\ pc = [w \in Peers |-> IF w <= peers_amount THEN "connect" ELSE "unlaunched"]
    /\ work_queue = requested
    /\ main_pc = "join"

WorkerStep(w) ==
    \/ HandshakeWrite(w)
    \/ HandshakeRead(w)
    \/ Bitfield(w)
    \/ InterestedSend(w)
    \/ InterestedRecv(w)
    \/ Pop(w)
    \/ PopPushBack(w)
    \/ QueueEmpty(w)
    \/ RequestSend(w)
    \/ RequestRecv(w)
    \/ HashCheck(w)

Next ==
    \/ \E w \in Peers : WorkerStep(w)
    \/ \E w \in Peers : PeerSend(w)
    \/ \E w \in Peers : PeerServeUnadvertised(w)
    \/ \E w \in Peers : PeerDeviate(w)
    \/ \E w \in Peers : PeerHang(w)
    \/ JoinOk
    \/ JoinErr
    \/ Collect

Spec == Init /\ [][Next]_vars

\* The scheduler under the fairness of the runtime: every worker that can
\* take a step eventually does, a peer that has not stopped answering
\* answers, and download_pieces itself keeps running.
FairSpec ==
    /\ Spec
    /\ \A w \in Peers : WF_vars(WorkerStep(w))
    /\ \A w \in Peers : WF_vars(PeerSend(w))
    /\ WF_vars(JoinOk \/ JoinErr \/ Collect)

\* The scheduler with the critical section of the work loop taken apart:
\* the lock, the pop_front and the push_back or the way out of the block.
WorkerStepLock(w) ==
    \/ HandshakeWrite(w)
    \/ HandshakeRead(w)
    \/ Bitfield(w)
    \/ InterestedSend(w)
    \/ InterestedRecv(w)
    \/ LockQueue(w)
    \/ PopFront(w)
    \/ PushBackOrKeep(w)
    \/ RequestSend(w)
    \/ RequestRecv(w)
    \/ HashCheck(w)

NextLock ==
    \/ \E w \in Peers : WorkerStepLock(w)
    \/ \E w \in Peers : PeerSend(w)
    \/ \E w \in Peers : PeerServeUnadvertised(w)
    \/ \E w \in Peers : PeerDeviate(w)
    \/ \E w \in Peers : PeerHang(w)
    \/ JoinOk
    \/ JoinErr
    \/ Collect

SpecLock == Init /\ [][NextLock]_vars

\* The piece sizes of every torrent of up to MaxLength bytes, summed as
\* Torrent::pieces_size sums them over 0 .. pieces.len().
InitSizes ==
    /\ length \in 0 .. MaxLength
    /\ piece_length \in 1 .. MaxPieceLength
    /\ requested = <<>>
    /\ npeers = 0
    /\ bitfield = [p \in Peers |-> <<>>]
    /\ Idle
    /\ pc = [w \in Peers |-> "unlaunched"]
    /\ work_queue = <<>>
    /\ main_pc = "sizes"

NextSizes == SizeStep

SpecSizes == InitSizes /\ [][NextSizes]_vars

\* One peer and the whole file, as Torrent::download requests it, over
\* piece sizes on both sides of every multiple of BLOCK_MAX up to three blocks.
BlockPieceLengths ==
    {1, BLOCK_MAX - 1, BLOCK_MAX, BLOCK_MAX + 1, 2 * BLOCK_MAX - 1, 2 * BLOCK_MAX,
     2 * BLOCK_MAX + 1, 3 * BLOCK_MAX}

BlockGeometries ==
    UNION {{<<plen * (n - 1) + r, plen>> : r \in {1, plen, (plen + 1) \div 2}} :
              plen \in BlockPieceLengths, n \in 1 .. MaxPieces}

InitBlocks ==
    /\ \E g \in BlockGeometries : length = g[1] /\ piece_length = g[2]
    /\ requested = [i \in 1 .. PieceCount(length, piece_length) |-> i - 1]
    /\ npeers = 1
    /\ \E has \in SUBSET (0 .. PieceCount(length, piece_length) - 1) :
         bitfield = [p \in Peers |-> IF p = 1 THEN BitfieldOf(has) ELSE BitfieldOf({})]
    /\ Idle
    /\ pc = [w \in Peers |-> IF w <= peers_amount THEN "connect" ELSE "unlaunched"]
    /\ work_queue = requested
    /\ main_pc = "join"

SpecBlocks == InitBlocks /\ [][Next]_vars

\* The decode command on every argument.
InitBencode ==
    /\ \E in \in Inputs(MaxInput, MaxItems) : encoded_value = in[1] /\ source = in[2]
    /\ decoded = NotDecoded
    /\ length = 0
    /\ piece_length = 1
    /\ requested = <<>>
    /\ npeers = 0
    /\ bitfield = [p \in Peers |-> <<>>]
    /\ IdleWorkers
    /\ pc = [w \in Peers |-> "unlaunched"]
    /\ work_queue = <<>>
    /\ main_pc = "decode"

NextBencode == Decode

SpecBencode == InitBencode /\ [][NextBencode]_vars

(* -------------------------------- claims ------------------------------- *)

Range(q) == {q[i] : i \in 1 .. Len(q)}

\* download_pieces returned Ok.
ReturnedOk == main_pc = "returned" /\ result.ok

\* The two candidate peers advertise disjoint piece sets that together cover
\* the requested indices.
DisjointCover ==
    /\ npeers = 2
    /\ Advertised(1) \cap Advertised(2) = {}
    /\ Range(requested) \subseteq Advertised(1) \cup Advertised(2)

\* C1: with two candidate peers whose advertised piece sets are disjoint and
\* cover the requested indices, and no peer failing or hanging,
\* download_pieces eventually returns and its output holds every requested
\* piece.
C1_DownloadCompletes ==
    DisjointCover =>
        <>(faults > 0 \/ (ReturnedOk /\ Range(requested) \subseteq Range(result.order)))

\* C2: every piece index is emitted as a Completed Piece at most once, and
\* only by a worker whose peer advertised that index.
C2_EmittedOnceByAdvertiser ==
    \A i \in 1 .. Len(rx) :
        /\ \A j \in 1 .. Len(rx) : i # j => rx[i].number # rx[j].number
        /\ rx[i].number \in Advertised(rx[i].by)

\* The collected pieces concatenated by ascending index, without sorting:
\* the piece of the least index first.
RECURSIVE ConcatAscending(_)
ConcatAscending(S) ==
    IF S = {} THEN <<>>
    ELSE LET i == CHOOSE x \in S : \A y \in S : rx[x].number <= rx[y].number
         IN  Extend(rx[i].blocks, ConcatAscending(S \ {i}))

\* C3: the byte stream download_pieces returns is the concatenation of the
\* collected pieces in strictly ascending piece-index order, whatever the
\* order in which the workers sent them on the channel.
C3_OutputInIndexOrder ==
    ReturnedOk =>
        /\ Len(result.order) = Len(rx)
        /\ Range(result.order) = {rx[i].number : i \in 1 .. Len(rx)}
        /\ \A i \in 1 .. Len(result.order) - 1 : result.order[i] < result.order[i + 1]
        /\ result.bytes = ConcatAscending(1 .. Len(rx))

\* download_pieces returned pieces that arrived out of index order.
C3_Witness ==
    /\ ReturnedOk
    /\ Len(rx) >= 2
    /\ rx[1].number > rx[2].number
    /\ result.bytes # <<>>

\* The size of the piece worker w holds.
HeldSize(w) == piece_size(piece[w], length, piece_length)

\* Worker w stopped on the digest check: it had received every block.
FailedOnDigest(w) ==
    /\ pc[w] = "failed"
    /\ piece[w] # NoPiece
    /\ block[w] = (HeldSize(w) + BLOCK_MAX - 1) \div BLOCK_MAX

\* C4: a worker never emits a Completed Piece whose bytes have a digest other
\* than the expected hash of its index; on a mismatch the worker stops, the
\* piece is not sent and its index is not put back on the work queue.
C4_Integrity ==
    /\ [](\A i \in 1 .. Len(rx) : Hash(rx[i].blocks) = piece_hashes(rx[i].number))
    /\ [](\A w \in Peers :
            pc[w] = "failed" /\ piece[w] # NoPiece =>
                /\ piece[w] \notin Range(work_queue)
                /\ \A i \in 1 .. Len(rx) : rx[i].number # piece[w])
    /\ [][\A w \in Peers :
            pc[w] = "hash" /\ Hash(all_blocks[w]) # piece_hashes(piece[w]) =>
                /\ pc'[w] \in {"hash", "failed"}
                /\ pc'[w] = "failed" => piece'[w] = piece[w]
                /\ rx' = rx \/ rx'[Len(rx')].by # w]_vars
    /\ [][\A w \in Peers : pc[w] = "failed" => pc'[w] = "failed"]_vars

\* A worker received every block of a piece, one of them corrupted, and
\* stopped on the digest check.
C4_Witness ==
    \E w \in Peers :
        /\ FailedOnDigest(w)
        /\ BytesLen(all_blocks[w]) = HeldSize(w)
        /\ Hash(all_blocks[w]) # piece_hashes(piece[w])

\* What the session of a worker in state Ready exchanged: the handshake
\* written and a valid one read back, a first message with the Bitfield
\* tag, Interested with an empty payload, Unchoke with an empty payload.
ReadyTrace(t) ==
    /\ Len(t) = 5
    /\ t[1][1] = "tx" /\ t[1][2].kind = "handshake"
    /\ t[2][1] = "rx" /\ t[2][2].kind = "handshake" /\ t[2][2].nbytes = 68
    /\ t[2][2].length = 19 /\ t[2][2].bittorrent = "BitTorrent protocol"
    /\ t[3][1] = "rx" /\ t[3][2].kind = "frame" /\ t[3][2].tag = "Bitfield"
    /\ t[4][1] = "tx" /\ t[4][2].kind = "frame" /\ t[4][2].tag = "Interested"
    /\ PayloadLen(t[4][2]) = 0
    /\ t[5][1] = "rx" /\ t[5][2].kind = "frame" /\ t[5][2].tag = "Unchoke"
    /\ PayloadLen(t[5][2]) = 0

\* The session received a first message other than Bitfield, or a reply to
\* Interested other than Unchoke with an empty payload.
SetupViolated(t) ==
    \/ Len(t) >= 3 /\ ~(t[3][2].kind = "frame" /\ t[3][2].tag = "Bitfield")
    \/ Len(t) >= 5 /\ ~(t[5][2].kind = "frame" /\ t[5][2].tag = "Unchoke"
                        /\ PayloadLen(t[5][2]) = 0)

\* C5: a Request frame is sent only in state Ready, reached only through a
\* successful handshake, a first message with the Bitfield tag, Interested
\* sent with an empty payload and Unchoke received with an empty payload, in
\* this order; any other first message or reply to Interested ends the
\* session with an error before any Request is sent.
C5_ProtocolOrdering ==
    /\ [][\A w \in Peers :
            requests'[w] # requests[w] /\ requests'[w] # <<>> => ReadyTrace(trace[w])]_vars
    /\ [](\A w \in Peers :
            pc[w] \in {"loop", "request", "piece_wait", "hash", "done"} => ReadyTrace(trace[w]))
    /\ [](\A w \in Peers :
            SetupViolated(trace[w]) =>
                /\ pc[w] = "failed"
                /\ requests[w] = <<>>
                /\ piece[w] = NoPiece)

\* One session sent a Request while another was ended by a protocol
\* violation during setup.
C5_Witness ==
    \E w, v \in Peers :
        /\ requests[w] # <<>>
        /\ SetupViolated(trace[v])

\* C6: handshake writes the 68-byte handshake and reads 68 bytes back; it
\* fails if the length read back is not 19, or the protocol name read back
\* is not "BitTorrent protocol", or on an I/O error, and otherwise succeeds
\* with the remote peer id equal to the peer-id field of the reply.
C6_Handshake ==
    \A w \in Peers :
        /\ Len(trace[w]) >= 1 =>
              trace[w][1][2].nbytes = 68 /\ trace[w][1][2].length = 19
              /\ trace[w][1][2].bittorrent = "BitTorrent protocol"
        /\ Len(trace[w]) >= 2 =>
              LET m == trace[w][2][2]
                  io_error == m.kind # "handshake" \/ m.nbytes < 68
                  failed == pc[w] = "failed" /\ Len(trace[w]) = 2
              IN  /\ failed <=> (io_error \/ m.length # 19
                                   \/ m.bittorrent # "BitTorrent protocol")
                  /\ ~failed => id[w] = m.peer_id
        /\ Len(trace[w]) < 2 => id[w] = <<>>

\* One handshake succeeded and another was refused for its protocol name.
C6_Witness ==
    \E w, v \in Peers :
        /\ id[w] = PeerId(w)
        /\ pc[v] = "failed" /\ Len(trace[v]) = 2
        /\ trace[v][2][2].kind = "handshake" /\ trace[v][2][2].nbytes = 68
        /\ trace[v][2][2].length = 19
        /\ trace[v][2][2].bittorrent # "BitTorrent protocol"

\* C7: the piece set Peer::bitfield computes from a Bitfield payload is
\* { 8*k + j : bit j, from the most significant, of payload byte k is set }.
C7_BitfieldMsbFirst ==
    \A w \in Peers :
        Len(trace[w]) >= 3 /\ pc[w] # "failed" =>
            pieces[w] = MsbFirstPieces(Expand(trace[w][3][2].body))

\* C8: a request succeeds only if the next message has the Piece tag, a
\* non-empty payload and the index and offset of the request; on success
\* the accumulator is its previous content followed by the block bytes of
\* the reply, and on every failure it is unchanged.
C8_RequestBlock ==
    [][\A w \in Peers :
        pc[w] = "piece_wait" /\ pc'[w] # "piece_wait" =>
            LET m == wire[w]
                r == LastRequest(w)
            IN  /\ pc'[w] # "failed" =>
                    /\ m.kind = "frame"
                    /\ m.tag = "Piece"
                    /\ PayloadLen(m) > 0
                    /\ m.hdr = <<r.index, r.begin>>
                    /\ all_blocks'[w] = Extend(all_blocks[w], m.body)
                    /\ BytesLen(all_blocks'[w]) = BytesLen(all_blocks[w]) + PayloadLen(m) - 8
                /\ pc'[w] = "failed" => all_blocks'[w] = all_blocks[w]]_vars

\* A worker had its first request answered and accepted and its second one
\* refused: the accumulator still holds the first block alone.
C8_Witness ==
    \E w \in Peers :
        /\ pc[w] = "failed"
        /\ block[w] = 1
        /\ Len(requests[w]) = 2
        /\ faults = 1 /\ remote[w] = "ok"
        /\ all_blocks[w] = FileBlock(piece[w], 0, BLOCK_MAX)

\* C9: for a piece count of ceil(totalLength / pieceLength), piece_size is
\* at most pieceLength for every valid index, equals pieceLength for every
\* index but the last, sums to totalLength over the valid indices, and its
\* subtraction never underflows.
C9_PieceSizes ==
    LET n == (length + piece_length - 1) \div piece_length
    IN  /\ \A i \in 0 .. n - 1 :
              /\ piece_length * i <= length
              /\ ~SubUnderflows(length, piece_length * i)
              /\ piece_size(i, length, piece_length) <= piece_length
              /\ i < n - 1 => piece_size(i, length, piece_length) = piece_length
        /\ size_idx <= n
        /\ size_idx = n => size_sum = length

\* The sizes of at least two pieces, the last one shorter, were summed.
C9_Witness ==
    /\ main_pc = "sizes"
    /\ size_idx = PieceCount(length, piece_length)
    /\ size_idx >= 2
    /\ length % piece_length # 0
    /\ size_sum = length

RECURSIVE SumLengths(_)
SumLengths(R) == IF R = <<>> THEN 0 ELSE R[1].length + SumLengths(Tail(R))

\* C10: for a piece of size S the worker issues exactly ceil(S / BLOCK_MAX)
\* requests, at offsets 0, BLOCK_MAX, 2*BLOCK_MAX, ... in this order, each of
\* a length between 1 and BLOCK_MAX, all of length BLOCK_MAX except possibly
\* the last, and the lengths sum to S.
C10_BlockPartition ==
    \A w \in Peers :
        piece[w] # NoPiece =>
            LET S == HeldSize(w)
                n == (S + BLOCK_MAX - 1) \div BLOCK_MAX
                R == requests[w]
            IN  /\ Len(R) <= n
                /\ \A k \in 1 .. Len(R) :
                      /\ R[k].index = piece[w]
                      /\ R[k].begin = (k - 1) * BLOCK_MAX
                      /\ R[k].length >= 1 /\ R[k].length <= BLOCK_MAX
                      /\ k < n => R[k].length = BLOCK_MAX
                /\ pc[w] = "hash" => Len(R) = n /\ SumLengths(R) = S

\* A worker requested a piece of three blocks, the last one shorter.
C10_Witness ==
    \E w \in Peers :
        /\ pc[w] = "hash"
        /\ Len(requests[w]) = 3
        /\ requests[w][3].length < BLOCK_MAX
        /\ BytesLen(all_blocks[w]) = HeldSize(w)

\* Bencode::new returned.
Decoded == decoded # NotDecoded

\* t is one or more ASCII digits.
AllDigits(t) == t # <<>> /\ \A i \in 1 .. Len(t) : IsDigit(t[i])

\* p is the first characters of s.
IsPrefix(p, s) == Len(p) <= Len(s) /\ SubSeq(s, 1, Len(p)) = p

\* C11: for an input whose first character is an ASCII digit, decode fails
\* with MissingDelimiter if the input has no ':'; otherwise with
\* InvalidNumber if the text before the first ':' is not a non-negative
\* integer; otherwise with InvalidLength if fewer than that many bytes follow
\* the ':'; otherwise it returns the ByteString of exactly that many bytes
\* following the ':'.
C11_DecodeByteString ==
    Decoded /\ encoded_value # <<>> /\ IsDigit(encoded_value[1]) =>
        LET s == encoded_value
            colon == FindChar(s, ":")
            text == SubSeq(s, 1, colon - 1)
            after == SubSeq(s, colon + 1, Len(s))
            n == DigitsNat(StripZeros([i \in 1 .. Len(text) |-> DigitVal(text[i])]))
        IN  IF \A i \in 1 .. Len(s) : s[i] # ":" THEN decoded = Err("MissingDelimeter")
            ELSE IF ~AllDigits(text) THEN decoded = Err("InvalidNumber")
            ELSE IF StrLen(after) < n THEN decoded = Err("InvalidLength")
            ELSE /\ decoded.tag = "Ok"
                 /\ decoded.value.type = "String"
                 /\ StrLen(decoded.value.s) = n
                 /\ IsPrefix(decoded.value.s, after)

\* t is a signed decimal integer: an optional '-', then one or more digits.
IsSignedDecimal(t) ==
    IF t # <<>> /\ t[1] = "-" THEN AllDigits(Tail(t)) ELSE AllDigits(t)

\* The digits of the magnitude of a signed decimal integer.
Magnitude(t) ==
    LET body == IF t[1] = "-" THEN Tail(t) ELSE t
    IN  StripZeros([i \in 1 .. Len(body) |-> DigitVal(body[i])])

\* C12: for an input whose first character is 'i', decode fails with
\* MissingDelimiter if no 'e' follows; otherwise with InvalidNumber if the
\* text between the 'i' and the first 'e' is not a signed decimal integer
\* (optional leading '-'); otherwise it returns the Integer of that value.
C12_DecodeInteger ==
    Decoded /\ encoded_value # <<>> /\ encoded_value[1] = "i" =>
        LET s == encoded_value
            end == FindChar(s, "e")
            text == SubSeq(s, 2, end - 1)
        IN  IF \A i \in 1 .. Len(s) : s[i] # "e" THEN decoded = Err("MissingDelimeter")
            ELSE IF ~IsSignedDecimal(text) THEN decoded = Err("InvalidNumber")
            ELSE /\ decoded.tag = "Ok"
                 /\ decoded.value.type = "Number"
                 /\ decoded.value.n.digits = Magnitude(text)
                 /\ decoded.value.n.neg = (text[1] = "-" /\ Magnitude(text) # <<0>>)

\* C13: decoding a prefix of the encoding of a list or dictionary that ends
\* after a complete list element, after a complete key/value pair or after a
\* dictionary key fails with MissingDelimiter.
C13_TruncatedContainer ==
    Decoded /\ source.kind = "cut" => decoded = Err("MissingDelimeter")

\* C14: a dictionary with an Integer, a List or a Dictionary where a key is
\* expected fails with InvalidKey, and a terminated dictionary whose keys are
\* all byte strings decodes to the Dictionary mapping each key to the value
\* that follows it.
C14_DictionaryKeys ==
    /\ Decoded /\ source.kind = "key" => decoded = Err("InvalidKey")
    /\ Decoded /\ source.kind = "whole" /\ source.value.type = "Dictionary" =>
           decoded = Ok(source.value)

\* Worker w popped an index and did not complete it.
Holds(w) == piece[w] # NoPiece

\* C15: in a download over distinct requested indices, no piece index is
\* held by two workers at the same time, and no index held by a worker is
\* also in the work queue.
C15_OneInFlightAssignment ==
    \A w \in Peers :
        Holds(w) =>
            /\ \A v \in Peers \ {w} : Holds(v) => piece[v] # piece[w]
            /\ piece[w] \notin Range(work_queue)

\* Two workers are downloading at the same time.
C15_Witness ==
    \E w, v \in Peers :
        /\ w # v
        /\ pc[w] = "piece_wait" /\ pc[v] = "piece_wait"
        /\ Holds(w) /\ Holds(v)

\* C16: a session has at most one Request whose reply was not received, and
\* the Request for block k + 1 of a piece is sent only after the reply to
\* the Request for block k was received and accepted.
C16_NoPipelining ==
    /\ [](\A w \in Peers :
            /\ Len(requests[w]) - block[w] \in {0, 1}
            /\ Len(requests[w]) - block[w] = 1 =>
                   pc[w] = "piece_wait" \/ (pc[w] = "failed" /\ wire[w] = None))
    /\ [][\A w \in Peers :
            requests'[w] # requests[w] /\ requests'[w] # <<>> =>
                /\ Len(requests'[w]) = Len(requests[w]) + 1
                /\ block[w] = Len(requests[w])
                /\ wire[w] = None
                /\ requests'[w][Len(requests'[w])].begin = block[w] * BLOCK_MAX]_vars

\* A worker sent the Request for the second block of its piece.
C16_Witness ==
    \E w \in Peers :
        /\ pc[w] = "piece_wait"
        /\ Len(requests[w]) = 2
        /\ block[w] = 1
        /\ all_blocks[w] = FileBlock(piece[w], 0, BLOCK_MAX)

\* Worker w failed after it popped an index.
FailedHolding(w) == pc[w] = "failed" /\ Holds(w)

\* Worker v has a step to take that waits for no peer.
Runnable(v) ==
    \/ pc[v] \in {"loop", "request", "hash"}
    \/ pc[v] = "piece_wait" /\ wire[v] # None

\* C17: the index a worker held when it failed is never put back on the
\* work queue, is never downloaded by another worker and is absent from the
\* collected pieces; the failed worker stays failed, and the other workers
\* go on with their loops.
C17_FailureLosesPiece ==
    /\ [](\A w \in Peers :
            FailedHolding(w) =>
                /\ piece[w] \notin Range(work_queue)
                /\ \A v \in Peers \ {w} : piece[v] # piece[w]
                /\ \A i \in 1 .. Len(rx) : rx[i].number # piece[w]
                /\ piece[w] \notin Range(result.order)
                /\ \A v \in Peers \ {w} : Runnable(v) => ENABLED WorkerStep(v))
    /\ [][\A w \in Peers :
            FailedHolding(w) =>
                /\ pc'[w] = "failed"
                /\ piece'[w] = piece[w]
                /\ Len(work_queue') <= Len(work_queue)]_vars

\* A worker failed holding an index, and the other worker completed the
\* remaining index and left its loop on the empty queue.
C17_Witness ==
    \E w, v \in Peers :
        /\ FailedHolding(w)
        /\ pc[v] = "done"
        /\ work_queue = <<>>
        /\ Len(requested) = 2
        /\ \E i \in 1 .. Len(rx) : rx[i].by = v /\ rx[i].number # piece[w]

\* Worker w was spawned.
Launched(w) == pc[w] # "unlaunched"

\* C20: download_pieces launches exactly min(candidateCount, requestedCount)
\* workers, one for each of the first candidates in the order of the peer
\* list, and opens no connection to any other candidate.
C20_WorkerCount ==
    LET n == IF npeers <= Len(requested) THEN npeers ELSE Len(requested)
    IN  /\ Cardinality({w \in Peers : Launched(w)}) = n
        /\ \A w \in Peers : Launched(w) <=> w <= n
        /\ \A w \in Peers :
              ~Launched(w) =>
                  /\ trace[w] = <<>>
                  /\ wire[w] = None
                  /\ id[w] = <<>>
                  /\ requests[w] = <<>>
                  /\ \A i \in 1 .. Len(rx) : rx[i].by # w

\* Two candidates and one requested piece: the first candidate's worker
\* downloaded it and the second candidate was never contacted.
C20_Witness ==
    /\ npeers = 2
    /\ Len(requested) = 1
    /\ pc[1] = "done"
    /\ pc[2] = "unlaunched"
    /\ Len(rx) = 1
    /\ trace[2] = <<>>

\* No peer a worker was launched for advertises index q.
AdvertisedByNone(q) == \A p \in Peers : Launched(p) => q \notin Advertised(p)

\* C18: a worker that completed setup leaves its work loop normally only
\* when it observes the work queue empty; hence a requested index that no
\* connected peer advertises stays in the work queue forever, no worker
\* leaves its loop, and download_pieces never returns its result.
C18_UnadvertisedPiece ==
    /\ [][\A w \in Peers :
            pc[w] # "done" /\ pc'[w] = "done" => pc[w] = "loop" /\ work_queue = <<>>]_vars
    /\ [](\A q \in Range(requested) :
            AdvertisedByNone(q) =>
                /\ q \in Range(work_queue)
                /\ \A w \in Peers : pc[w] # "done"
                /\ ~ReturnedOk)

\* The peer of worker w stopped answering while w waits for a block.
HungOnRequest(w) == pc[w] = "piece_wait" /\ remote[w] = "hung" /\ wire[w] = None

\* Index q was sent on the channel.
Downloaded(q) == \E i \in 1 .. Len(rx) : rx[i].number = q

\* Index q is queued while a worker is hung on a Request, and the peer of
\* another worker, launched and not failed, advertises q.
QueuedBesideHung(q) ==
    \E w \in Peers : \E v \in Peers \ {w} :
        /\ HungOnRequest(w)
        /\ q \in Range(work_queue)
        /\ pc[v] \notin {"unlaunched", "failed"}
        /\ q \in Advertised(v)

\* C19: the worker of a peer that never answers a Request waits forever
\* holding its index, and download_pieces never returns a result; the other
\* workers are not blocked and still download every queued index their
\* peers advertise.
C19_HungPeer ==
    /\ [][\A w \in Peers :
            HungOnRequest(w) => HungOnRequest(w)' /\ piece'[w] = piece[w]]_vars
    /\ [](\A w \in Peers : HungOnRequest(w) => Holds(w) /\ ~ReturnedOk)
    /\ \A q \in 0 .. MaxPieces - 1 :
            [](QueuedBesideHung(q) => <>Downloaded(q))

\* C22: a handshake succeeds (the session goes on to read the bitfield) only
\* if the identifier field of the peer's reply equals the identifier that
\* was sent.
C22_IdentifierAgreement ==
    [][\A w \in Peers :
        pc[w] = "handshake_read" /\ pc'[w] = "bitfield" =>
            wire[w].info_hash = OwnHandshake.info_hash]_vars

\* The values a list or dictionary holds, at any depth, itself included.
RECURSIVE SubValues(_)
SubValues(v) ==
    {v} \cup
    CASE v.type = "List" -> UNION {SubValues(v.items[i]) : i \in 1 .. Len(v.items)}
      [] v.type = "Dictionary" -> UNION {SubValues(v.map[k]) : k \in DOMAIN v.map}
      [] OTHER -> {}

\* C23: for the canonical encoding of a list or dictionary, the width
\* encoded_length computes for each sub-value is the number of input bytes
\* the sub-value occupies, and decode returns every encoded element, in
\* order for a list, none skipped or misread.
C23_SubValueWidths ==
    Decoded /\ source.kind = "whole" /\ source.value.type \in {"List", "Dictionary"} =>
        /\ \A v \in SubValues(source.value) : encoded_length(v) = StrLen(Encode(v))
        /\ decoded = Ok(source.value)

\* C25: whenever download_pieces returns successfully, every launched worker
\* finished setup and left its loop on an empty queue, and the output holds
\* every requested index exactly once; if a launched worker failed,
\* download_pieces does not return a successful result.
C25_NoPartialSuccess ==
    /\ ReturnedOk =>
          /\ \A w \in Peers : Launched(w) => pc[w] = "done" /\ Len(trace[w]) = 5
          /\ work_queue = <<>>
          /\ Len(result.order) = Len(requested)
          /\ Range(result.order) = Range(requested)
    /\ (\E w \in Peers : pc[w] = "failed") => ~ReturnedOk

\* Worker w holds the guard of the work queue's Mutex.
HoldsLock(w) == mutex = w

\* C21: the work-queue lock is held only for a pop, or a pop followed by a
\* push-back of the same index: no worker holds the lock while it is
\* connecting, handshaking, waiting for a framed message or waiting for a
\* block reply, the queue changes only under the lock, and a worker never
\* fails while holding the lock.
C21_LockOnlyAroundQueue ==
    /\ [](mutex = NoHolder \/ (mutex \in Peers /\ Launched(mutex)))
    /\ [](\A w \in Peers : HoldsLock(w) => pc[w] \in {"locked", "popped"})
    /\ [](\A w \in Peers :
            pc[w] \in {"connect", "handshake_read", "bitfield", "interested",
                       "unchoke_wait", "request", "piece_wait", "hash", "failed", "done"}
                => ~HoldsLock(w))
    /\ [][work_queue' # work_queue =>
            \E w \in Peers : HoldsLock(w) /\ pc'[w] # pc[w]]_vars
    /\ [][\A w \in Peers :
            HoldsLock(w) /\ ~HoldsLock(w)' =>
                /\ mutex' = NoHolder
                /\ \/ pc[w] = "locked" /\ work_queue = <<>> /\ work_queue' = <<>>
                   \/ /\ pc[w] = "popped"
                      /\ \/ work_queue' = Append(work_queue, piece[w])
                         \/ work_queue' = work_queue /\ piece'[w] = piece[w]]_vars
    /\ [][\A w \in Peers : HoldsLock(w) => pc'[w] # "failed"]_vars

\* A worker is inside its critical section while another waits for a block.
C21_Witness ==
    \E w, v \in Peers :
        /\ HoldsLock(w) /\ pc[w] = "popped"
        /\ pc[v] = "piece_wait" /\ wire[v] = None

\* How many of the four places hold index q: the work queue, a worker that
\* popped it and has not failed, the channel, a worker that failed holding it.
Places(q) ==
    Cardinality({i \in 1 .. Len(work_queue) : work_queue[i] = q})
    + Cardinality({w \in Peers : piece[w] = q /\ pc[w] # "failed"})
    + Cardinality({i \in 1 .. Len(rx) : rx[i].number = q})
    + Cardinality({w \in Peers : piece[w] = q /\ pc[w] = "failed"})

\* C24: each requested index is in exactly one of: the work queue, held in
\* flight by one worker, emitted as a Completed Piece, lost with a failed
\* worker; a pop followed by a push-back of an unadvertised index is atomic
\* (between the two no other worker reads or changes the queue) and changes
\* only the order of the queue.
C24_ConservationOfWork ==
    /\ [](\A q \in 0 .. MaxPieces - 1 :
            Places(q) = IF q \in Range(requested) THEN 1 ELSE 0)
    /\ [][\A w \in Peers :
            pc[w] = "locked" /\ pc'[w] = "popped" =>
                work_queue = <<piece'[w]>> \o work_queue']_vars
    /\ [][\A w \in Peers :
            pc[w] = "popped" /\ pc'[w] = "popped" =>
                /\ work_queue' = work_queue
                /\ piece'[w] = piece[w]
                /\ \A v \in Peers \ {w} :
                      pc'[v] \notin {"locked", "popped"} /\ (pc[v] = "loop" => pc'[v] = "loop")]_vars
    /\ [][\A w \in Peers :
            pc[w] = "popped" /\ piece[w] \notin pieces[w] =>
                \/ pc'[w] = "popped"
                \/ /\ pc'[w] = "loop"
                   /\ work_queue' = Append(work_queue, piece[w])
                   /\ piece'[w] = NoPiece
                   /\ rx' = rx]_vars

\* A worker popped the first of two requested indices, one its peer does not
\* have, and pushed it back: the queue holds the two indices in the other order.
C24_Witness ==
    /\ Len(requested) = 2
    /\ work_queue = <<requested[2], requested[1]>>
    /\ mutex = NoHolder
    /\ \E w \in Peers : pc[w] = "loop" /\ requested[1] \notin pieces[w]

====
